---------------------------- MODULE Spec2Model ----------------------------
(* A model of scripts/update_publications.py: the PubMed publication       *)
(* updater.  One run of main() is a walk of pc through                     *)
(*   idle -> search -> fetch -> analyze -> html -> data -> log -> done.    *)
(* Strings the code inspects (journal names, years, numbers in the page)   *)
(* are sequences of one-character strings.  Impact factors and their sums  *)
(* are fixed-point numbers in hundredths (3.57 is 357).                    *)
EXTENDS Integers, Sequences, FiniteSets, TLC

VARIABLES
    pc,                 \* where main() stands
    now,                \* the clock: one tick per run
    jcr_file,           \* jcr_impact_factors.json as it is on disk
    server_count,       \* how many publications PubMed holds for the query
    jcr_data,           \* main: the loaded reference table
    pmids,              \* main: the identifier list
    pub_count,          \* main: the count the search reported
    batch_log,          \* fetch_publication_details: the batches done so far
    publications,       \* the parsed records
    journal_stats,      \* analyze_publications: buckets in insertion order
    year_stats,         \* analyze_publications: year buckets in insertion order
    unmatched_journals, \* analyze_publications: the diagnostic listing
    html,               \* index.html on disk
    original_content,   \* index.html as it was when the run started
    data_file,          \* publication_data.json on disk
    log_file,           \* publication_log.json on disk
    updated,            \* what update_html_stats returned
    printed,            \* what the run has printed about its outcome so far
    exit_code           \* the process exit status of the last run

vars == <<pc, now, jcr_file, server_count, jcr_data, pmids, pub_count, batch_log,
          publications, journal_stats, year_stats, unmatched_journals, html,
          original_content, data_file, log_file, updated, printed, exit_code>>

-----------------------------------------------------------------------------
(* Bounds of the model.                                                    *)

\* runs of main() in one behaviour
MaxRuns == 2
\* longest record sequence handed to analyze_publications on its own
MaxRecs == 3
\* most batches a fetch is split into
MaxBatches == 3

(* Constants of the program.                                               *)

\* batch_size
BatchSize == 100
\* retmax of the search
RetMax == 500
\* the history log keeps this many entries
LogCap == 100
\* the snapshot keeps this many raw records
RecentCap == 20
\* the stat-number is floored to a multiple of this
RoundTo == 10
\* spaces after the newline in the replacement templates
Indent == 20

-----------------------------------------------------------------------------
(* Characters and strings.                                                 *)

Digits == {"0", "1", "2", "3", "4", "5", "6", "7", "8", "9"}
Uppers == <<"A", "B", "C", "D", "E", "F", "G", "H", "I", "J", "K", "L", "M",
            "N", "O", "P", "Q", "R", "S", "T", "U", "V", "W", "X", "Y", "Z">>
Lowers == <<"a", "b", "c", "d", "e", "f", "g", "h", "i", "j", "k", "l", "m",
            "n", "o", "p", "q", "r", "s", "t", "u", "v", "w", "x", "y", "z">>
WhiteSpace == {" ", "\n"}

\* str.lower() on one character
LowerOf(c) ==
    IF \E k \in 1..Len(Uppers) : Uppers[k] = c
    THEN Lowers[CHOOSE k \in 1..Len(Uppers) : Uppers[k] = c]
    ELSE c

\* the class \d of the regular expressions
IsDigit(c) == c \in Digits

\* the class \w of the regular expressions
IsWord(c) ==
    \/ IsDigit(c)
    \/ c = "_"
    \/ \E k \in 1..Len(Uppers) : Uppers[k] = c \/ Lowers[k] = c

\* the class \s of the regular expressions
IsSpace(c) == c \in WhiteSpace

s_JMed == <<"J", " ", "M", "e", "d">>
s_JMedDot == <<"J", ".", " ", "M", "e", "d", ".">>
s_MedJ == <<"M", "e", "d", " ", "J">>
s_Uro == <<"U", "r", "o">>
s_UroJ == <<"U", "r", "o", " ", "J">>
s_Unknown == <<"U", "n", "k", "n", "o", "w", "n", " ", "J", "o", "u", "r", "n", "a", "l">>
s_2023 == <<"2", "0", "2", "3">>
s_2024 == <<"2", "0", "2", "4">>
s_MedlineDate == <<"2", "0", "2", "4", " ", "J", "a", "n", "-", "F", "e", "b">>
s_Q1 == <<"Q", "1">>
s_Empty == <<>>

RECURSIVE JoinSplit(_, _, _)
\* ' '.join(s.split()): runs of white space become one space, none at the ends
JoinSplit(s, out, pending) ==
    IF s = <<>> THEN out
    ELSE IF IsSpace(Head(s)) THEN JoinSplit(Tail(s), out, out # <<>>)
    ELSE JoinSplit(Tail(s), (IF pending THEN Append(out, " ") ELSE out) \o <<Head(s)>>, FALSE)

\* normalize_journal_name: lower case, punctuation removed, white space collapsed
normalize_journal_name(name) ==
    IF name = <<>> THEN <<>>
    ELSE LET lowered == [k \in 1..Len(name) |-> LowerOf(name[k])]
             kept == SelectSeq(lowered, LAMBDA c : IsWord(c) \/ IsSpace(c))
         IN JoinSplit(kept, <<>>, FALSE)

-----------------------------------------------------------------------------
(* The reference table: the entries of "journals" in file order (the       *)
(* order a Python dict iterates in).  An absent quartile or full_name      *)
(* reads as the empty string, as .get(..., '') makes it.                   *)

JcrEntry(k, f, q, n) == [key |-> k, if |-> f, quartile |-> q, full_name |-> n]

\* the position in jcr of the entry match_journal_to_jcr returns, 0 for None
match_journal_to_jcr(journal_abbrev, journal_title, jcr) ==
    LET exact == {k \in 1..Len(jcr) : jcr[k].key = journal_abbrev}
        normalized_abbrev == normalize_journal_name(journal_abbrev)
        normalized_title == normalize_journal_name(journal_title)
        hits == {k \in 1..Len(jcr) :
                    LET jcr_normalized == normalize_journal_name(jcr[k].key)
                        jcr_full_normalized == normalize_journal_name(jcr[k].full_name)
                    IN \/ jcr_normalized = normalized_abbrev
                       \/ jcr_normalized = normalized_title
                       \/ jcr_full_normalized = normalized_abbrev
                       \/ jcr_full_normalized = normalized_title}
    IN IF exact # {} THEN CHOOSE k \in exact : TRUE
       ELSE IF hits # {} THEN CHOOSE k \in hits : \A h \in hits : k <= h
       ELSE 0

-----------------------------------------------------------------------------
(* What PubMed serves.  An article is what parse_article reads of one      *)
(* PubmedArticle element; a field the document lacks reads as the empty    *)
(* string, as findtext(..., '') makes it.                                  *)

Article(m, j, jt, ja, pd, y, md) ==
    [medline |-> m, journal |-> j, journal_title |-> jt, journal_abbrev |-> ja,
     pub_date |-> pd, year |-> y, medline_date |-> md]

Catalog ==
    << Article(TRUE, TRUE, s_MedJ, s_JMed, TRUE, s_2023, s_Empty),
       Article(TRUE, TRUE, s_MedJ, s_JMedDot, TRUE, s_2024, s_Empty),
       Article(TRUE, TRUE, s_Unknown, s_Empty, TRUE, s_Empty, s_MedlineDate),
       Article(TRUE, TRUE, s_UroJ, s_JMedDot, FALSE, s_Empty, s_Empty),
       Article(FALSE, FALSE, s_Empty, s_Empty, FALSE, s_Empty, s_Empty),
       Article(TRUE, FALSE, s_Empty, s_Empty, FALSE, s_Empty, s_Empty) >>

\* the article PubMed holds under identifier id
ArticleOf(id) == Catalog[((id - 1) % Len(Catalog)) + 1]

\* re.search(r'(\d{4})', s).group(1), or the empty string when nothing matches
FirstFourDigits(s) ==
    LET starts == {k \in 1..(Len(s) - 3) : \A d \in 0..3 : IsDigit(s[k + d])}
    IN IF starts = {} THEN <<>>
       ELSE LET k == CHOOSE a \in starts : \A b \in starts : a <= b
            IN SubSeq(s, k, k + 3)

\* parse_article: the record in a one-element sequence, or <<>> for None
parse_article(id, article) ==
    IF ~article.medline THEN <<>>
    ELSE LET journal_title == IF article.journal THEN article.journal_title ELSE <<>>
             journal_abbrev == IF article.journal THEN article.journal_abbrev ELSE <<>>
             pub_year ==
                 IF ~(article.journal /\ article.pub_date) THEN <<>>
                 ELSE IF article.year # <<>> THEN article.year
                 ELSE FirstFourDigits(article.medline_date)
         IN << [pmid |-> id, journal_title |-> journal_title,
                journal_abbrev |-> journal_abbrev, year |-> pub_year] >>

-----------------------------------------------------------------------------
(* analyze_publications.  journal_stats and year_stats are dicts: here     *)
(* sequences of buckets in insertion order, one bucket per key.            *)

\* the position of the bucket of key in a dict, 0 when it has none
IndexOf(dict, key) ==
    IF \E k \in 1..Len(dict) : dict[k].key = key
    THEN CHOOSE k \in 1..Len(dict) : dict[k].key = key
    ELSE 0

\* a bug: no fallback to the full title
JournalKey_AbbrevOnly(pub) == pub.journal_abbrev

\* journal_key = journal_abbrev if journal_abbrev else journal_title
JournalKey(pub) ==
    IF pub.journal_abbrev # <<>> THEN pub.journal_abbrev ELSE pub.journal_title

\* a bug: only a new bucket takes the match
SetMatch_NewBucketOnly(bucket, entry) ==
    IF bucket.count = 0
    THEN [bucket EXCEPT !.if = entry.if, !.quartile = entry.quartile]
    ELSE bucket

\* journal_stats[journal_key]['if'] = ...; journal_stats[journal_key]['quartile'] = ...
SetMatch(bucket, entry) ==
    [bucket EXCEPT !.if = entry.if, !.quartile = entry.quartile]

\* a bug: the guard on the empty key forgotten
AddUnmatched_NoGuard(um, journal_key) == um \cup {journal_key}

\* if journal_key: unmatched_journals.add(journal_key)
AddUnmatched(um, journal_key) ==
    IF journal_key # <<>> THEN um \cup {journal_key} ELSE um

\* one turn of the loop over publications; acc holds the three collections
AnalyzeOne(acc, pub, jcr) ==
    LET m == match_journal_to_jcr(pub.journal_abbrev, pub.journal_title, jcr)
        journal_key == JournalKey(pub)
        year == pub.year
        js0 == IF IndexOf(acc.js, journal_key) = 0
               THEN Append(acc.js, [key |-> journal_key, count |-> 0, if |-> 0,
                                    quartile |-> <<>>, years |-> <<>>])
               ELSE acc.js
        jk == IndexOf(js0, journal_key)
        js1 == IF m # 0 THEN [js0 EXCEPT ![jk] = SetMatch(@, jcr[m])] ELSE js0
        um1 == IF m = 0 THEN AddUnmatched(acc.um, journal_key) ELSE acc.um
        js2 == [js1 EXCEPT ![jk].count = @ + 1,
                           ![jk].years = IF year # <<>> THEN Append(@, year) ELSE @]
        ys0 == IF year # <<>> /\ IndexOf(acc.ys, year) = 0
               THEN Append(acc.ys, [key |-> year, count |-> 0, total_if |-> 0])
               ELSE acc.ys
        yk == IndexOf(ys0, year)
        ys1 == IF year # <<>>
               THEN [ys0 EXCEPT ![yk].count = @ + 1,
                                ![yk].total_if = IF m # 0 THEN @ + jcr[m].if ELSE @]
               ELSE ys0
    IN [js |-> js2, ys |-> ys1, um |-> um1]

RECURSIVE AnalyzeRange(_, _, _, _, _)
\* "for pub in publications" over the positions lo..hi, in order, starting
\* from acc.  The range is halved, and the left half is evaluated (by the
\* comparison, which is never true: every record adds to a count) before the
\* right half starts, so that the evaluation stays shallow; the records are
\* still folded from left to right.
AnalyzeRange(pubs, lo, hi, acc, jcr) ==
    IF lo > hi THEN acc
    ELSE IF lo = hi THEN AnalyzeOne(acc, pubs[lo], jcr)
    ELSE LET mid == (lo + hi) \div 2
             left == AnalyzeRange(pubs, lo, mid, acc, jcr)
         IN IF left = acc THEN acc
            ELSE AnalyzeRange(pubs, mid + 1, hi, left, jcr)

\* analyze_publications: the journal buckets, the year buckets, the unmatched keys
analyze_publications(pubs, jcr) ==
    AnalyzeRange(pubs, 1, Len(pubs), [js |-> <<>>, ys |-> <<>>, um |-> {}], jcr)

-----------------------------------------------------------------------------
(* Numbers as the code prints them.                                        *)

DigitChars == <<"0", "1", "2", "3", "4", "5", "6", "7", "8", "9">>

RECURSIVE IntStr(_)
\* str(n) of a natural number
IntStr(n) ==
    IF n < 10 THEN <<DigitChars[n + 1]>>
    ELSE Append(IntStr(n \div 10), DigitChars[(n % 10) + 1])

\* a / b rounded to the nearest integer, a tie going to the even one (what
\* round() and the f-formats do with a value the float holds exactly)
RoundDiv(a, b) ==
    LET q == a \div b
        r == a % b
    IN IF 2 * r > b THEN q + 1
       ELSE IF 2 * r = b THEN q + (q % 2)
       ELSE q

\* round(x, 1) of x given in hundredths, in hundredths again
Round1(h) == RoundDiv(h, 10) * 10

\* f"{x:.1f}" of x given in hundredths
Fmt1(h) ==
    LET t == RoundDiv(h, 10)
    IN IntStr(t \div 10) \o <<".", DigitChars[(t % 10) + 1]>>

\* f"{x:.2f}" of x given in hundredths
Fmt2(h) ==
    IntStr(h \div 100) \o <<".", DigitChars[((h \div 10) % 10) + 1], DigitChars[(h % 10) + 1]>>

RECURSIVE SumIF(_)
\* sum(js.get('if', 0) * js.get('count', 0) for js in journal_stats.values())
SumIF(js) ==
    IF js = <<>> THEN 0
    ELSE Head(js).if * Head(js).count + SumIF(Tail(js))

-----------------------------------------------------------------------------
(* index.html: a sequence of segments.                                     *)
(*   text   any other content, named by label                              *)
(*   stat   <div class="stat-number">num</div>ws<div class="stat-label">label *)
(*   over   With over num SCI-indexed publications                         *)
(*   stamp  Last updated: word num                                         *)

Seg(k, n, w, l, m) == [kind |-> k, num |-> n, ws |-> w, label |-> l, word |-> m]

Text(l) == Seg("text", <<>>, <<>>, l, <<>>)
Stat(n, w, l) == Seg("stat", n, w, l, <<>>)
Over(n) == Seg("over", n, <<>>, "", <<>>)
Stamp(m, n) == Seg("stamp", n, <<>>, "", m)

\* "\n" and the spaces that follow it in the replacement templates
TemplateWs == <<"\n">> \o [k \in 1..Indent |-> " "]

\* \d+
AllDigits(n) == n # <<>> /\ \A k \in 1..Len(n) : IsDigit(n[k])

\* \d+\+?
DigitsPlus(n) ==
    \/ AllDigits(n)
    \/ Len(n) >= 2 /\ n[Len(n)] = "+" /\ AllDigits(SubSeq(n, 1, Len(n) - 1))

\* [\d.]+
DigitsDots(n) == n # <<>> /\ \A k \in 1..Len(n) : IsDigit(n[k]) \/ n[k] = "."

\* \w+
AllWord(w) == w # <<>> /\ \A k \in 1..Len(w) : IsWord(w[k])

\* re.sub of the SCI Publications pattern on one segment: \g<2> keeps the
\* text between the number and the label
SubSci(seg, stat_text) ==
    IF seg.kind = "stat" /\ seg.label = "SCI Publications" /\ DigitsPlus(seg.num)
    THEN [seg EXCEPT !.num = stat_text]
    ELSE seg

\* re.sub of "With over \d+ SCI-indexed publications" on one segment
SubOver(seg, rounded_count) ==
    IF seg.kind = "over" /\ AllDigits(seg.num)
    THEN [seg EXCEPT !.num = IntStr(rounded_count)]
    ELSE seg

\* re.sub of a [\d.]+ pattern on one segment: the template rewrites the text
\* between the number and the label
SubDecimal(seg, label, value) ==
    IF seg.kind = "stat" /\ seg.label = label /\ DigitsDots(seg.num)
    THEN [seg EXCEPT !.num = value, !.ws = TemplateWs]
    ELSE seg

\* re.sub of a \d+ pattern on one segment, with the same kind of template
SubInteger(seg, label, value) ==
    IF seg.kind = "stat" /\ seg.label = label /\ AllDigits(seg.num)
    THEN [seg EXCEPT !.num = value, !.ws = TemplateWs]
    ELSE seg

\* re.sub of "Last updated: \w+ \d{4}" on one segment
SubStamp(seg, today) ==
    IF /\ seg.kind = "stamp"
       /\ AllWord(seg.word)
       /\ Len(seg.num) >= 4
       /\ AllDigits(SubSeq(seg.num, 1, 4))
    THEN [seg EXCEPT !.word = today.word,
                     !.num = today.num \o SubSeq(seg.num, 5, Len(seg.num))]
    ELSE seg

\* datetime.now().strftime("%B %Y") at clock t
Today(t) ==
    IF t % 2 = 1 THEN [word |-> <<"M", "a", "y">>, num |-> s_2024]
    ELSE [word |-> <<"J", "u", "n", "e">>, num |-> s_2024]

\* update_html_stats, from the text read to the text it would write
Substitute(content, count, js, today) ==
    LET rounded_count == (count \div RoundTo) * RoundTo
        stat_text == Append(IntStr(rounded_count), "+")
        total_if == SumIF(js)
        avg_if == IF count > 0 THEN RoundDiv(total_if, count) ELSE 0
        num_journals == Len(js)
        One(seg) ==
            LET c1 == SubSci(seg, stat_text)
                c2 == SubOver(c1, rounded_count)
                c3 == SubDecimal(c2, "Total Impact Factor", Fmt1(total_if))
                c4 == SubInteger(c3, "Total Publications", IntStr(count))
                c5 == SubDecimal(c4, "Average Impact Factor", Fmt2(avg_if))
                c6 == SubInteger(c5, "Different Journals", IntStr(num_journals))
                c7 == SubDecimal(c6, "Total IF Sum", Fmt1(total_if))
            IN SubStamp(c7, today)
    IN [k \in 1..Len(content) |-> One(content[k])]

-----------------------------------------------------------------------------
(* The snapshot, publication_data.json.                                    *)

\* the characters in code point order
CodePoints ==
    <<"\n", " ", "+", "-", ".">> \o DigitChars \o Uppers \o <<"_">> \o Lowers

Ord(c) == CHOOSE k \in 1..Len(CodePoints) : CodePoints[k] = c

RECURSIVE StrLess(_, _)
\* a < b on Python strings
StrLess(a, b) ==
    IF b = <<>> THEN FALSE
    ELSE IF a = <<>> THEN TRUE
    ELSE IF Head(a) # Head(b) THEN Ord(Head(a)) < Ord(Head(b))
    ELSE StrLess(Tail(a), Tail(b))

RECURSIVE SortedDesc(_)
\* sorted(S, reverse=True) of a set of strings
SortedDesc(S) ==
    IF S = {} THEN <<>>
    ELSE LET top == CHOOSE x \in S : \A y \in S \ {x} : StrLess(y, x)
         IN <<top>> \o SortedDesc(S \ {top})

\* set(seq)
Range(seq) == {seq[k] : k \in 1..Len(seq)}

\* the sort key (-if, -count): a goes before b
JournalBefore(a, b) == a.if > b.if \/ (a.if = b.if /\ a.count > b.count)

RECURSIVE SortJournals(_)
\* sorted(journal_stats.items(), key=...): stable, so equal keys keep their order
SortJournals(js) ==
    IF js = <<>> THEN <<>>
    ELSE LET first == CHOOSE k \in 1..Len(js) :
                          /\ \A h \in 1..Len(js) : ~JournalBefore(js[h], js[k])
                          /\ \A h \in 1..(k - 1) : JournalBefore(js[k], js[h])
             rest == [h \in 1..(Len(js) - 1) |-> IF h < first THEN js[h] ELSE js[h + 1]]
         IN <<js[first]>> \o SortJournals(rest)

\* the by_year list: sorted(year_stats.items(), reverse=True)
SortYears(ys) ==
    LET order == SortedDesc({ys[k].key : k \in 1..Len(ys)})
    IN [k \in 1..Len(order) |->
           LET y == ys[IndexOf(ys, order[k])]
           IN [year |-> y.key, count |-> y.count, total_if |-> Round1(y.total_if)]]

\* the dict save_publication_data dumps
SnapshotOf(count, js, ys, pubs, t) ==
    LET sorted_journals == SortJournals(js)
    IN [last_updated |-> t,
        total_publications |-> count,
        total_if |-> SumIF(js),
        journals |-> [k \in 1..Len(sorted_journals) |->
                         [name |-> sorted_journals[k].key,
                          count |-> sorted_journals[k].count,
                          impact_factor |-> sorted_journals[k].if,
                          quartile |-> sorted_journals[k].quartile,
                          years |-> SortedDesc(Range(sorted_journals[k].years))]],
        by_year |-> SortYears(ys),
        recent_publications |->
            SubSeq(pubs, 1, IF Len(pubs) < RecentCap THEN Len(pubs) ELSE RecentCap)]

-----------------------------------------------------------------------------
(* The history log, publication_log.json.  A file is <<>> when it does not *)
(* exist and <<content>> when it does.                                     *)

\* the log_entry of save_publication_log
LogEntryOf(count, js, t) ==
    [timestamp |-> t,
     total_count |-> count,
     total_if |-> Round1(SumIF(js)),
     journal_count |-> Len(js)]

\* a bug: seq[:n], which keeps the oldest entries
LastN_FirstN(seq, n) ==
    IF Len(seq) <= n THEN seq ELSE SubSeq(seq, 1, n)

\* seq[-n:]
LastN(seq, n) ==
    IF Len(seq) <= n THEN seq ELSE SubSeq(seq, Len(seq) - n + 1, Len(seq))

\* the updates save_publication_log writes, given the file it found
AppendToLog(file, entry) ==
    LET log_data == IF file # <<>> THEN file[1].updates ELSE <<>>
    IN LastN(Append(log_data, entry), LogCap)

-----------------------------------------------------------------------------
(* The inputs: reference tables, pages, logs.                              *)

E_JMed == JcrEntry(s_JMed, 357, s_Q1, s_MedJ)
E_Uro == JcrEntry(s_Uro, 124, s_Empty, s_UroJ)
E_Bare == JcrEntry(s_Uro, 124, s_Empty, s_Empty)

JcrTables == { <<E_JMed, E_Uro>>, <<E_Uro, E_JMed>>, <<E_Uro>>, <<E_Bare>>, <<>> }

DocFull ==
    << Text("head"),
       Stat(<<"1", "1", "0", "+">>, <<"\n", " ">>, "SCI Publications"),
       Over(<<"1", "1", "0">>),
       Stat(<<"0", ".", "0">>, TemplateWs, "Total Impact Factor"),
       Stat(<<"0">>, TemplateWs, "Total Publications"),
       Stat(<<"0", ".", "0", "0">>, TemplateWs, "Average Impact Factor"),
       Stat(<<"0">>, TemplateWs, "Different Journals"),
       Stat(<<"0", ".", "0">>, TemplateWs, "Total IF Sum"),
       Stamp(<<"M", "a", "y">>, s_2024),
       Text("tail") >>

DocNone ==
    << Text("head"), Stat(<<"4", "2">>, <<" ">>, "Citations"), Text("tail") >>

DocOdd ==
    << Stat(<<"7">>, <<" ">>, "Total Publications"),
       Stat(<<"n", "a">>, <<" ">>, "Total Impact Factor"),
       Stat(<<"1", ".", "5">>, <<>>, "Total IF Sum") >>

Docs == {DocFull, DocNone, DocOdd}

\* a log the program wrote earlier: n entries, oldest first
OldLog(n) ==
    << [updates |-> [k \in 1..n |->
            [timestamp |-> k - n, total_count |-> k % 3,
             total_if |-> 0, journal_count |-> k % 2]]] >>

-----------------------------------------------------------------------------
(* main().                                                                 *)

Min(a, b) == IF a < b THEN a ELSE b

\* what esearch answers when it answers: the newest RetMax identifiers and
\* the number of publications the query matches
SearchResponse(n) ==
    [idlist |-> [k \in 1..Min(n, RetMax) |-> n + 1 - k], count |-> n]

\* get_pubmed_ids: the pair it returns, given whether the request and its
\* decoding went through
get_pubmed_ids(ok, response) ==
    IF ok THEN [pmids |-> response.idlist, count |-> response.count]
    ELSE [pmids |-> <<>>, count |-> 0]

\* a bug: main goes on without identifiers
Halts_Never(ids) == FALSE

\* main: "if not pmids: return False"
Halts(ids) == ids = <<>>

\* a bug: the result of main ignored
ExitCode_AlwaysZero(success) == 0

\* sys.exit(0 if success else 1)
ExitCode(success) == IF success THEN 0 ELSE 1

\* pmids[i:i+batch_size]
BatchAt(ids, i) == SubSeq(ids, i + 1, Min(i + BatchSize, Len(ids)))

\* the records of one answered batch: parse_article on each article, in the
\* order of the identifiers, None dropped
ParseBatch(batch) ==
    LET parsed == SelectSeq(batch, LAMBDA id : parse_article(id, ArticleOf(id)) # <<>>)
    IN [k \in 1..Len(parsed) |-> parse_article(parsed[k], ArticleOf(parsed[k]))[1]]

\* a bug: a failed batch throws away what was parsed before it
FetchOne_AllOrNothing(pubs, batch, ok) ==
    IF ok THEN pubs \o ParseBatch(batch) ELSE <<>>

\* one turn of the loop of fetch_publication_details: publications after it
FetchOne(pubs, batch, ok) ==
    IF ok THEN pubs \o ParseBatch(batch) ELSE pubs

\* whether the loop of fetch_publication_details goes on after the batch at i
MoreBatches(ids, i) == i + BatchSize < Len(ids)

\* update_html_stats: the file after it and what it returns; io_ok is false
\* when reading or writing the file raises
update_html_stats(file, io_ok, count, js, today) ==
    LET content == Substitute(file, count, js, today)
    IN IF ~io_ok
       THEN [file |-> file, result |-> FALSE, out |-> "Error updating HTML"]
       ELSE IF content # file
       THEN [file |-> content, result |-> TRUE, out |-> "Updated HTML"]
       ELSE [file |-> file, result |-> FALSE, out |-> "No changes needed in HTML"]

\* save_publication_data: the file after it and what it prints
save_publication_data(file, io_ok, count, js, ys, pubs, t) ==
    IF io_ok
    THEN [file |-> <<SnapshotOf(count, js, ys, pubs, t)>>,
          out |-> "Saved publication data"]
    ELSE [file |-> file, out |-> "Error saving publication data"]

\* save_publication_log: the file after it and what it prints
save_publication_log(file, io_ok, count, js, t) ==
    IF io_ok
    THEN [file |-> << [updates |-> AppendToLog(file, LogEntryOf(count, js, t))] >>,
          out |-> "Saved publication log"]
    ELSE [file |-> file, out |-> "Error saving log"]

StartRun ==
    /\ pc \in {"idle", "done"}
    /\ now < MaxRuns
    /\ now' = now + 1
    /\ \E loaded \in BOOLEAN : jcr_data' = IF loaded THEN jcr_file ELSE <<>>
    /\ original_content' = html
    /\ pmids' = <<>>
    /\ pub_count' = 0
    /\ batch_log' = <<>>
    /\ publications' = <<>>
    /\ journal_stats' = <<>>
    /\ year_stats' = <<>>
    /\ unmatched_journals' = {}
    /\ updated' = FALSE
    /\ printed' = <<>>
    /\ pc' = "search"
    /\ UNCHANGED <<jcr_file, server_count, html, data_file, log_file, exit_code>>

Search ==
    /\ pc = "search"
    /\ \E ok \in BOOLEAN :
         LET got == get_pubmed_ids(ok, SearchResponse(server_count))
         IN /\ pmids' = got.pmids
            /\ pub_count' = got.count
            /\ IF Halts(got.pmids)
               THEN /\ pc' = "done"
                    /\ printed' = <<"Failed to get publication IDs, exiting">>
                    /\ exit_code' = ExitCode(FALSE)
               ELSE /\ pc' = "fetch"
                    /\ UNCHANGED <<printed, exit_code>>
    /\ UNCHANGED <<now, jcr_file, server_count, jcr_data, batch_log, publications,
                   journal_stats, year_stats, unmatched_journals, html,
                   original_content, data_file, log_file, updated>>

FetchBatch ==
    /\ pc = "fetch"
    /\ LET i == Len(batch_log) * BatchSize
           batch == BatchAt(pmids, i)
       IN /\ \E ok \in BOOLEAN :
               /\ publications' = FetchOne(publications, batch, ok)
               /\ batch_log' = Append(batch_log, [ids |-> batch, ok |-> ok])
          /\ pc' = IF MoreBatches(pmids, i) THEN "fetch" ELSE "analyze"
    /\ UNCHANGED <<now, jcr_file, server_count, jcr_data, pmids, pub_count,
                   journal_stats, year_stats, unmatched_journals, html,
                   original_content, data_file, log_file, updated, printed, exit_code>>

Analyze ==
    /\ pc = "analyze"
    /\ LET r == analyze_publications(publications, jcr_data)
       IN /\ journal_stats' = r.js
          /\ year_stats' = r.ys
          /\ unmatched_journals' = r.um
    /\ pc' = "html"
    /\ UNCHANGED <<now, jcr_file, server_count, jcr_data, pmids, pub_count, batch_log,
                   publications, html, original_content, data_file, log_file,
                   updated, printed, exit_code>>

UpdateHtml ==
    /\ pc = "html"
    /\ \E io_ok \in BOOLEAN :
         LET r == update_html_stats(html, io_ok, pub_count, journal_stats, Today(now))
         IN html' = r.file /\ updated' = r.result /\ printed' = Append(printed, r.out)
    /\ pc' = "data"
    /\ UNCHANGED <<now, jcr_file, server_count, jcr_data, pmids, pub_count, batch_log,
                   publications, journal_stats, year_stats, unmatched_journals,
                   original_content, data_file, log_file, exit_code>>

SaveData ==
    /\ pc = "data"
    /\ \E io_ok \in BOOLEAN :
         LET r == save_publication_data(data_file, io_ok, pub_count, journal_stats,
                                        year_stats, publications, now)
         IN data_file' = r.file /\ printed' = Append(printed, r.out)
    /\ pc' = "log"
    /\ UNCHANGED <<now, jcr_file, server_count, jcr_data, pmids, pub_count, batch_log,
                   publications, journal_stats, year_stats, unmatched_journals, html,
                   original_content, log_file, updated, exit_code>>

SaveLog ==
    /\ pc = "log"
    /\ \E io_ok \in BOOLEAN :
         LET r == save_publication_log(log_file, io_ok, pub_count, journal_stats, now)
         IN log_file' = r.file /\ printed' = Append(printed, r.out)
    /\ exit_code' = ExitCode(updated)
    /\ pc' = "done"
    /\ UNCHANGED <<now, jcr_file, server_count, jcr_data, pmids, pub_count, batch_log,
                   publications, journal_stats, year_stats, unmatched_journals, html,
                   original_content, data_file, updated>>

Next ==
    \/ StartRun
    \/ Search
    \/ FetchBatch
    \/ Analyze
    \/ UpdateHtml
    \/ SaveData
    \/ SaveLog

\* the state before the first run, for given inputs and files
InitWith(counts, tables, pages, logs, clock) ==
    /\ pc = "idle"
    /\ now = clock
    /\ jcr_file \in tables
    /\ server_count \in counts
    /\ jcr_data = <<>>
    /\ pmids = <<>>
    /\ pub_count = 0
    /\ batch_log = <<>>
    /\ publications = <<>>
    /\ journal_stats = <<>>
    /\ year_stats = <<>>
    /\ unmatched_journals = {}
    /\ html \in pages
    /\ original_content = html
    /\ data_file = <<>>
    /\ log_file \in logs
    /\ updated = FALSE
    /\ printed = <<>>
    /\ exit_code = 0

\* runs of the whole pipeline over a small PubMed
Init == InitWith(0..3, {<<E_JMed, E_Uro>>, <<E_Bare>>}, Docs, {<<>>, OldLog(0)}, 0)

Spec == Init /\ [][Next]_vars

-----------------------------------------------------------------------------
(* analyze_publications on its own, over every short sequence of records.  *)

\* the records parse_article makes of the catalog
RecordSet ==
    {parse_article(k, Catalog[k])[1] : k \in {h \in 1..Len(Catalog) : Catalog[h].medline}}

SeqsUpTo(S, n) == UNION {[1..k -> S] : k \in 0..n}

InitAgg ==
    /\ pc = "analyze"
    /\ now = 1
    /\ jcr_file \in JcrTables
    /\ jcr_data = jcr_file
    /\ publications \in SeqsUpTo(RecordSet, MaxRecs)
    /\ server_count = Len(publications)
    /\ pmids = <<>>
    /\ pub_count = Len(publications)
    /\ batch_log = <<>>
    /\ journal_stats = <<>>
    /\ year_stats = <<>>
    /\ unmatched_journals = {}
    /\ html = DocNone
    /\ original_content = html
    /\ data_file = <<>>
    /\ log_file = <<>>
    /\ updated = FALSE
    /\ printed = <<>>
    /\ exit_code = 0

NextAgg == Analyze

SpecAgg == InitAgg /\ [][NextAgg]_vars

-----------------------------------------------------------------------------
(* Properties of analyze_publications.                                     *)

\* the bucket key a record belongs under: its abbreviation, or its full title
\* when the abbreviation is empty
KeyOf(pub) == IF pub.journal_abbrev = <<>> THEN pub.journal_title ELSE pub.journal_abbrev

\* the positions of the records filed under key
Members(key) == {k \in 1..Len(publications) : KeyOf(publications[k]) = key}

\* the reference entry of the record at position k, 0 for none
MatchAt(k) ==
    match_journal_to_jcr(publications[k].journal_abbrev,
                         publications[k].journal_title, jcr_data)

RECURSIVE CountSum(_)
CountSum(buckets) ==
    IF buckets = <<>> THEN 0 ELSE Head(buckets).count + CountSum(Tail(buckets))

Analyzed == pc \in {"html", "data", "log"}

\* C8: aggregate files every record under exactly one journal bucket, keyed by
\* its abbreviation or, when that is empty, its full title.  A bucket's count
\* is the number of records with its key (at least 1, and the counts add up to
\* the number of records); its years are the non-empty years of its records,
\* in order; a record with an empty year is in its journal bucket and in no
\* year bucket.
C8_EveryRecordInOneBucket ==
    Analyzed =>
        /\ {journal_stats[b].key : b \in 1..Len(journal_stats)}
               = {KeyOf(publications[k]) : k \in 1..Len(publications)}
        /\ \A a, b \in 1..Len(journal_stats) :
               journal_stats[a].key = journal_stats[b].key => a = b
        /\ \A b \in 1..Len(journal_stats) :
               /\ journal_stats[b].count = Cardinality(Members(journal_stats[b].key))
               /\ journal_stats[b].count >= 1
               /\ journal_stats[b].years =
                      LET mine == SelectSeq(publications,
                                      LAMBDA p : KeyOf(p) = journal_stats[b].key
                                                 /\ p.year # <<>>)
                      IN [k \in 1..Len(mine) |-> mine[k].year]
        /\ CountSum(journal_stats) = Len(publications)
        /\ {year_stats[y].key : y \in 1..Len(year_stats)}
               = {publications[k].year : k \in 1..Len(publications)} \ {<<>>}
        /\ \A a, b \in 1..Len(year_stats) :
               year_stats[a].key = year_stats[b].key => a = b
        /\ \A y \in 1..Len(year_stats) :
               year_stats[y].count =
                   Cardinality({k \in 1..Len(publications) :
                                   publications[k].year = year_stats[y].key})
        /\ CountSum(year_stats) =
               Cardinality({k \in 1..Len(publications) : publications[k].year # <<>>})

\* two records in one bucket, one of them keyed by its title, one without a year
C8_Witness ==
    /\ Analyzed
    /\ \E b \in 1..Len(journal_stats) : journal_stats[b].count >= 2
    /\ \E k \in 1..Len(publications) :
           publications[k].journal_abbrev = <<>> /\ publications[k].journal_title # <<>>
    /\ \E k \in 1..Len(publications) : publications[k].year = <<>>
    /\ \E k \in 1..Len(publications) : publications[k].year # <<>>

\* the last record filed under key that has a reference entry, 0 when none has
LastMatched(key) ==
    LET matched == {k \in Members(key) : MatchAt(k) # 0}
    IN IF matched = {} THEN 0
       ELSE CHOOSE k \in matched : \A h \in matched : h <= k

\* C9: when records of one journal key match different reference entries, the
\* bucket's impact factor and quartile are those of the match of the record
\* seen last (a later record without a match leaves them as they are).
C9_LastMatchWins ==
    Analyzed =>
        \A b \in 1..Len(journal_stats) :
            LET last == LastMatched(journal_stats[b].key)
            IN last # 0 =>
                /\ journal_stats[b].if = jcr_data[MatchAt(last)].if
                /\ journal_stats[b].quartile = jcr_data[MatchAt(last)].quartile

\* a bucket whose first and last record match entries of different impact factor
C9_Witness ==
    /\ Analyzed
    /\ \E b \in 1..Len(journal_stats) :
         \E k, h \in Members(journal_stats[b].key) :
            /\ k < h
            /\ \A g \in Members(journal_stats[b].key) : g <= h
            /\ MatchAt(k) # 0
            /\ MatchAt(h) # 0
            /\ jcr_data[MatchAt(k)].if # jcr_data[MatchAt(h)].if
            /\ jcr_data[MatchAt(k)].quartile # jcr_data[MatchAt(h)].quartile

\* the impact factor of the bucket of key
BucketIF(key) == journal_stats[IndexOf(journal_stats, key)].if

\* C6 as stated: every record without a reference entry has a bucket of impact
\* factor 0 and its key in the unmatched listing.
C6_UnmatchedIsZeroAndListed ==
    Analyzed =>
        \A k \in 1..Len(publications) :
            MatchAt(k) = 0 =>
                /\ BucketIF(KeyOf(publications[k])) = 0
                /\ KeyOf(publications[k]) \in unmatched_journals

\* C6 as amended: a record without a reference entry has its key in the
\* unmatched listing unless the key is empty (an empty key is never listed),
\* and its bucket has impact factor 0 unless a record of the same key has an
\* entry (the bucket then has the impact factor of the last such record).
C6_UnmatchedListedUnlessEmpty ==
    Analyzed =>
        /\ <<>> \notin unmatched_journals
        /\ \A k \in 1..Len(publications) :
            MatchAt(k) = 0 =>
                LET key == KeyOf(publications[k])
                    last == LastMatched(key)
                IN /\ key # <<>> => key \in unmatched_journals
                   /\ last = 0 => BucketIF(key) = 0
                   /\ last # 0 => BucketIF(key) = jcr_data[MatchAt(last)].if

\* all three cases at once: an unmatched record under a listed key, one under
\* the empty key (impact factor 0, not listed), one in a bucket that has a match
C6_Witness ==
    /\ Analyzed
    /\ \E k \in 1..Len(publications) :
           MatchAt(k) = 0 /\ KeyOf(publications[k]) \in unmatched_journals
    /\ \E k \in 1..Len(publications) :
           /\ MatchAt(k) = 0
           /\ KeyOf(publications[k]) = <<>>
           /\ BucketIF(<<>>) = 0
    /\ \E k \in 1..Len(publications) :
           MatchAt(k) = 0 /\ BucketIF(KeyOf(publications[k])) # 0

-----------------------------------------------------------------------------
(* Other starting points of the pipeline.                                  *)

\* identifier counts that fill one to MaxBatches batches, the last one whole
\* or holding a single identifier
BatchCounts ==
    {k * BatchSize + r : k \in 0..(MaxBatches - 1), r \in {1, BatchSize}}

\* the last run, over a PubMed large enough for several batches
InitFetch == InitWith(BatchCounts, {<<E_JMed, E_Uro>>}, {DocFull}, {<<>>}, MaxRuns - 1)

SpecFetch == InitFetch /\ [][Next]_vars

\* runs over a log that is absent, empty, nearly full or full
InitLog ==
    InitWith({1, 2}, {<<E_JMed, E_Uro>>}, {DocFull},
             {<<>>, OldLog(0), OldLog(LogCap - 1), OldLog(LogCap)}, 0)

SpecLog == InitLog /\ [][Next]_vars

-----------------------------------------------------------------------------
(* Properties of the pipeline.                                             *)

\* the updates of a log file, none when the file does not exist
UpdatesOf(file) == IF file = <<>> THEN <<>> ELSE file[1].updates

\* C1: the log never holds more than 100 entries; only save_publication_log
\* changes it, and every run of it that saves the log puts its new entry
\* last, keeps the entries that survive in their order and unmodified, and
\* drops from the front exactly what exceeds the cap.
C1_LogBoundedFifo ==
    /\ [](Len(UpdatesOf(log_file)) <= 100)
    /\ [][log_file' # log_file =>
            pc = "log" /\ printed' = Append(printed, "Saved publication log")]_vars
    /\ [][printed' = Append(printed, "Saved publication log") =>
            LET old == UpdatesOf(log_file)
                new == UpdatesOf(log_file')
                dropped == Len(old) + 1 - Len(new)
            IN /\ pc = "log"
               /\ log_file' # <<>>
               /\ Len(new) = IF Len(old) + 1 <= 100 THEN Len(old) + 1 ELSE 100
               /\ new[Len(new)].timestamp = now
               /\ new[Len(new)].total_count = pub_count
               /\ new[Len(new)].journal_count = Len(journal_stats)
               /\ \A k \in 1..(Len(new) - 1) : new[k] = old[k + dropped]]_vars

\* two runs appended to a full log: the two oldest entries are gone
C1_Witness ==
    /\ pc = "done"
    /\ Len(UpdatesOf(log_file)) = 100
    /\ UpdatesOf(log_file)[100].timestamp = 2
    /\ UpdatesOf(log_file)[99].timestamp = 1
    /\ UpdatesOf(log_file)[1].timestamp = -97

\* a run that went through the publisher has ended
Published == pc = "done" /\ pmids # <<>>

\* the newest entry of the log
LastEntry == UpdatesOf(log_file)[Len(UpdatesOf(log_file))]

\* the current run wrote the log
WroteLog == \E k \in 1..Len(printed) : printed[k] = "Saved publication log"

\* the current run wrote the snapshot
WroteData == \E k \in 1..Len(printed) : printed[k] = "Saved publication data"

DigitVal(c) == CHOOSE d \in 0..9 : DigitChars[d + 1] = c

RECURSIVE IntVal(_)
IntVal(n) ==
    IF n = <<>> THEN 0 ELSE IntVal(SubSeq(n, 1, Len(n) - 1)) * 10 + DigitVal(n[Len(n)])

\* the value, in hundredths, of a number printed with one or two decimals
HundredthsOf(n) ==
    LET dot == CHOOSE k \in 1..Len(n) : n[k] = "."
        whole == IntVal(SubSeq(n, 1, dot - 1))
        frac == SubSeq(n, dot + 1, Len(n))
    IN whole * 100 + (IF Len(frac) = 1 THEN IntVal(frac) * 10 ELSE IntVal(frac))

\* C2 as stated: the total impact factor is the sum over the journal buckets
\* of impact factor times count, and the page, the snapshot and the log entry
\* of a run all carry that one value.
C2_TotalIfSameEverywhere ==
    Published =>
        LET total == SumIF(journal_stats)
        IN /\ updated =>
                \A k \in 1..Len(html) :
                    /\ html[k].kind = "stat"
                    /\ html[k].label \in {"Total Impact Factor", "Total IF Sum"}
                    /\ DigitsDots(html[k].num)
                    => HundredthsOf(html[k].num) = total
           /\ WroteData =>
                data_file[1].total_if = total
           /\ WroteLog =>
                LastEntry.total_if = total

\* C3: when the search fails or returns no identifiers, get_pubmed_ids returns
\* an empty sequence and count 0, and main stops there: nothing is fetched,
\* the page, the snapshot and the log stay as they are, and the exit code is 1.
C3_EmptySearchHalts ==
    [][(pc = "search" /\ pmids' = <<>>) =>
            /\ get_pubmed_ids(FALSE, SearchResponse(server_count))
                   = [pmids |-> <<>>, count |-> 0]
            /\ pub_count' = 0
            /\ pc' = "done"
            /\ exit_code' = 1
            /\ batch_log' = <<>>
            /\ publications' = <<>>
            /\ html' = html
            /\ data_file' = data_file
            /\ log_file' = log_file]_vars

\* the second run fails its search although PubMed holds publications, after a
\* first run that wrote all three files
C3_Witness ==
    /\ pc = "done"
    /\ now = 2
    /\ pmids = <<>>
    /\ server_count > 0
    /\ exit_code = 1
    /\ html # DocFull /\ html # DocNone /\ html # DocOdd
    /\ data_file # <<>>
    /\ Len(UpdatesOf(log_file)) = 1

\* whether some pattern of update_html_stats finds a match in the page
HasTarget(page) ==
    \E k \in 1..Len(page) :
        \/ /\ page[k].kind = "stat"
           /\ \/ page[k].label = "SCI Publications" /\ DigitsPlus(page[k].num)
              \/ /\ page[k].label \in {"Total Impact Factor", "Average Impact Factor",
                                       "Total IF Sum"}
                 /\ DigitsDots(page[k].num)
              \/ /\ page[k].label \in {"Total Publications", "Different Journals"}
                 /\ AllDigits(page[k].num)
        \/ page[k].kind = "over" /\ AllDigits(page[k].num)
        \/ /\ page[k].kind = "stamp"
           /\ AllWord(page[k].word)
           /\ Len(page[k].num) >= 4
           /\ AllDigits(SubSeq(page[k].num, 1, 4))

\* C4: a run exits with 0 exactly when it changed the page; it exits with 1
\* when no identifiers were retrieved or the substituted text equals the text
\* read, as it does when the page holds none of the targeted fields; whether
\* the snapshot and the log were written plays no part.
C4_ExitZeroIffPageChanged ==
    pc = "done" =>
        /\ exit_code \in {0, 1}
        /\ exit_code = 0 <=> html # original_content
        /\ pmids = <<>> => exit_code = 1
        /\ (pmids # <<>> /\ Substitute(original_content, pub_count, journal_stats,
                                        Today(now)) = original_content)
               => exit_code = 1
        /\ ~HasTarget(original_content) => (html = original_content /\ exit_code = 1)

\* a run that changed the page and exits with 0 though neither the snapshot
\* nor the log was written
C4_Witness ==
    /\ pc = "done"
    /\ exit_code = 0
    /\ html # original_content
    /\ data_file = <<>>
    /\ log_file = <<>>

RECURSIVE ExpectedRecords(_, _)
\* the records of the batches answered, in batch order
ExpectedRecords(log, k) ==
    IF k > Len(log) THEN <<>>
    ELSE (IF log[k].ok THEN ParseBatch(log[k].ids) ELSE <<>>) \o ExpectedRecords(log, k + 1)

RECURSIVE Concat(_, _)
Concat(log, k) ==
    IF k > Len(log) THEN <<>> ELSE log[k].ids \o Concat(log, k + 1)

\* C5: the batches are consecutive slices of the identifier sequence, of at
\* most 100 identifiers, that cover it once the loop has ended; a failed batch
\* adds no records and the loop goes on after it; the records returned are
\* those of the answered batches, in batch order.
C5_BatchesPartitionAndSurvive ==
    pc \in {"fetch", "analyze", "html", "data", "log"} =>
        /\ \A k \in 1..Len(batch_log) :
               /\ Len(batch_log[k].ids) >= 1
               /\ Len(batch_log[k].ids) <= 100
               /\ k < Len(batch_log) => Len(batch_log[k].ids) = 100
        /\ Concat(batch_log, 1) = SubSeq(pmids, 1, Len(Concat(batch_log, 1)))
        /\ pc # "fetch" => Concat(batch_log, 1) = pmids
        /\ pc = "fetch" => Len(Concat(batch_log, 1)) < Len(pmids)
        /\ publications = ExpectedRecords(batch_log, 1)

\* three batches, the middle one failed, records of the first and the last kept
C5_Witness ==
    /\ pc = "analyze"
    /\ Len(batch_log) = 3
    /\ batch_log[1].ok /\ ~batch_log[2].ok /\ batch_log[3].ok
    /\ \E k, h \in 1..Len(publications) :
           /\ publications[k].pmid \in Range(batch_log[1].ids)
           /\ publications[h].pmid \in Range(batch_log[3].ids)

\* C7 as stated: update_html_stats changes nothing but the numbers of the
\* targeted fields and the month and year of the stamp; the text between a
\* stat number and its label stays as it was.
C7_OnlyNumbersChange ==
    [][pc = "html" =>
            /\ Len(html') = Len(html)
            /\ \A k \in 1..Len(html) :
                   /\ html'[k].kind = html[k].kind
                   /\ html'[k].label = html[k].label
                   /\ html'[k].ws = html[k].ws
                   /\ html[k].kind # "stamp" => html'[k].word = html[k].word
                   /\ html[k].kind = "text" => html'[k] = html[k]]_vars

\* C10 as stated: the publication count a run publishes is the number of
\* records it aggregated, the sum of the bucket counts.
C10_CountIsRecordsAggregated ==
    Published =>
        /\ pub_count = Len(publications)
        /\ pub_count = CountSum(journal_stats)
        /\ WroteData =>
               data_file[1].total_publications = CountSum(journal_stats)
        /\ WroteLog =>
               LastEntry.total_count
                   = CountSum(journal_stats)

=============================================================================
